---- MODULE Spec2Model ----
(***************************************************************************)
(* Product Hub: the product submission and deletion workflow.              *)
(*                                                                         *)
(*   delegated-upload revision  src/src/components/ProductManager.tsx      *)
(*                              src/src/components/ProductForm.tsx         *)
(*   direct-upload revision     src/STORAGE_DEBUG.md (lines 24-166)        *)
(*                                                                         *)
(* Text is a sequence of one-character strings, so that length checks,     *)
(* split and trim are computed on the characters.  A URL string is a       *)
(* sequence of its parts, the scheme first, so that template strings are   *)
(* concatenations and z.string().url() is a test on the scheme.            *)
(***************************************************************************)
EXTENDS Integers, Sequences, FiniteSets, TLC

VARIABLES
    revision,       \* which revision of ProductManager is deployed
    form,           \* ProductForm: react-hook-form values (useForm)
    errors,         \* ProductForm: formState.errors, the fields with a violation
    imageUrls,      \* ProductForm: useState<string[]> imageUrls
    sub,            \* the submission: handleSubmit, internalSubmit, handleAddProduct
    isSubmitting,   \* ProductManager: useState isSubmitting
    uploadProgress, \* ProductManager: useState uploadProgress, <<num, den>>
    docs,           \* document store: the products collection
    blobs,          \* image store: the image resources that exist
    nextId,         \* ids handed out so far (auto-id generator)
    products,       \* ProductManager: useState products, the displayed list
    dels,           \* the handleDelete / handleDeleteProduct calls in flight
    lastDel,        \* the handleDeleteProduct call that returned last
    isDeleting,     \* ProductTable: useState isDeleting
    view,           \* ProductManager: the mounted view and its useEffect subscriptions
    widget          \* UploadDropzone: the batch it is uploading, the error it reported

formVars  == <<form, errors, imageUrls>>
subVars   == <<sub, isSubmitting, uploadProgress>>
storeVars == <<docs, blobs, nextId>>
delVars   == <<dels, lastDel, isDeleting>>
viewVars  == <<view, widget>>
vars == <<revision, form, errors, imageUrls, sub, isSubmitting, uploadProgress,
          docs, blobs, nextId, products, dels, lastDel, isDeleting, view, widget>>

-----------------------------------------------------------------------------
(* Bounds of the model *)

MaxTagLen == 4      \* longest raw tags input enumerated
MaxBatch == 2       \* most file descriptors in one upload-completion batch
MaxIds == 1         \* a submission starts while fewer auto-ids were generated
MaxFiles == 2       \* most files selected in one direct-upload submission
MaxFileNames == 1   \* distinct file names the user selects from
MaxBytes == 2       \* totalBytes of every uploaded file
MaxInFlight == 1    \* most delete calls in flight at once
MaxOverlap == 2     \* most delete calls in flight at once in the product table
MaxSubscriptions == 2 \* most subscriptions one view opens (effect runs)

(* Program constants *)

MAX_IMAGES == 3
MIN_NAME == 3
MIN_SHORT == 10
MAX_SHORT == 120
MIN_FULL == 10

-----------------------------------------------------------------------------
(* Text *)

Str(n) == [i \in 1..n |-> "x"]

Absent == <<"undefined">>       \* JavaScript undefined, where a string may stand
Null == "null"                  \* JavaScript null

RECURSIVE StringsUpTo(_, _)
StringsUpTo(alphabet, n) ==
    IF n = 0 THEN {<<>>}
    ELSE LET shorter == StringsUpTo(alphabet, n - 1)
         IN  shorter \cup {Append(s, c) : s \in shorter, c \in alphabet}

IsSpace(c) == c = " "

\* String.prototype.split(','): the pieces between the commas, empty ones kept.
RECURSIVE Split(_)
Split(s) ==
    IF \A i \in 1..Len(s) : s[i] # ","
    THEN <<s>>
    ELSE LET k == CHOOSE i \in 1..Len(s) :
                      s[i] = "," /\ \A j \in 1..(i - 1) : s[j] # ","
         IN  <<SubSeq(s, 1, k - 1)>> \o Split(SubSeq(s, k + 1, Len(s)))

\* String.prototype.trim(): white space removed at both ends.
RECURSIVE TrimStart(_)
TrimStart(s) ==
    IF s # <<>> /\ IsSpace(Head(s)) THEN TrimStart(Tail(s)) ELSE s

RECURSIVE TrimEnd(_)
TrimEnd(s) ==
    IF s # <<>> /\ IsSpace(s[Len(s)]) THEN TrimEnd(SubSeq(s, 1, Len(s) - 1)) ELSE s

\* Mutant: only the leading white space is removed.
TrimLeadingOnly(s) == TrimStart(s)

Trim(s) == TrimEnd(TrimStart(s))

\* Array.prototype.filter(tag => tag): the empty string is falsy.
RECURSIVE FilterTruthy(_)
FilterTruthy(xs) ==
    IF xs = <<>> THEN <<>>
    ELSE IF Head(xs) = <<>> THEN FilterTruthy(Tail(xs))
         ELSE <<Head(xs)>> \o FilterTruthy(Tail(xs))

\* data.tags?.split(',').map(tag => tag.trim()).filter(tag => tag) || []
TagsOf(raw) ==
    IF raw = Absent THEN <<>>
    ELSE LET pieces == Split(raw)
         IN  FilterTruthy([i \in 1..Len(pieces) |-> Trim(pieces[i])])

-----------------------------------------------------------------------------
(* URLs and upload descriptors *)

Scheme == "https://"

\* z.string().url(): the string parses as a URL, i.e. it starts with a scheme.
IsUrl(u) == u # <<>> /\ Head(u) = Scheme

UrlA == <<Scheme, "cdn.example/", "a.png">>
NotAUrl == <<"c.png">>

\* A completed file descriptor of the upload widget; <<>> is a missing field.
DescUrl  == [url |-> UrlA,    key |-> <<"ka">>]
DescKey  == [url |-> <<>>,    key |-> <<"kb">>]
DescNone == [url |-> <<>>,    key |-> <<>>]
DescBad  == [url |-> NotAUrl, key |-> <<"kc">>]

Descs == {DescUrl, DescKey, DescNone, DescBad}

\* Mutant: the key is not looked at.
UrlOfExplicitOnly(file) == file.url

\* let url = file.url; if (!url && file.key) url = `https://utfs.io/f/${file.key}`
UrlOf(file) ==
    IF file.url = <<>> /\ file.key # <<>>
    THEN <<Scheme, "utfs.io/f/">> \o file.key
    ELSE file.url

\* res.map(file => ...).filter(Boolean)
NewUrls(res) == FilterTruthy([i \in 1..Len(res) |-> UrlOf(res[i])])

-----------------------------------------------------------------------------
(* productFormSchema *)

\* z.coerce.number(): Number(input) of what the number input holds.  The
\* default value 0 is held as "0".
IsNaN(raw) == raw \notin {"", "-1", "0", "1", "20"}

NumberOf(raw) ==
    CASE raw = ""    -> 0
      [] raw = "-1"  -> -1
      [] raw = "0"   -> 0
      [] raw = "1"   -> 1
      [] raw = "20"  -> 20

NameOk(v) == Len(v.name) >= MIN_NAME
ShortOk(v) == Len(v.shortDescription) >= MIN_SHORT /\ Len(v.shortDescription) <= MAX_SHORT
FullOk(v) == Len(v.fullDescription) >= MIN_FULL
PriceOk(v) == ~IsNaN(v.regularPrice) /\ NumberOf(v.regularPrice) > 0
\* Mutant: the .min(1) rule is missing.
ImagesOkWithoutMin(v) ==
    /\ Len(v.images) <= MAX_IMAGES
    /\ \A i \in 1..Len(v.images) : IsUrl(v.images[i])

ImagesOk(v) ==
    /\ Len(v.images) >= 1
    /\ Len(v.images) <= MAX_IMAGES
    /\ \A i \in 1..Len(v.images) : IsUrl(v.images[i])

\* zodResolver(productFormSchema): the fields with a violation.
SchemaErrors(v) ==
    {f \in {"name"} : ~NameOk(v)}
    \cup {f \in {"shortDescription"} : ~ShortOk(v)}
    \cup {f \in {"fullDescription"} : ~FullOk(v)}
    \cup {f \in {"regularPrice"} : ~PriceOk(v)}
    \cup {f \in {"images"} : ~ImagesOk(v)}

\* The accepted, coerced record handed to the submit handler.
Parsed(v) == [v EXCEPT !.regularPrice = NumberOf(v.regularPrice)]

\* useForm defaultValues
DefaultValues ==
    [name |-> <<>>, shortDescription |-> <<>>, fullDescription |-> <<>>,
     regularPrice |-> "0", salePrice |-> Null, tags |-> <<>>, images |-> <<>>]

-----------------------------------------------------------------------------
(* State after construction and the mount effects *)

\* useEffect: form.setValue('images', imageUrls, { shouldValidate: true })
SyncImages(vals, urls) == [vals EXCEPT !.images = urls]

ImagesError(errs, urls) ==
    IF ImagesOk([images |-> urls]) THEN errs \ {"images"} ELSE errs \cup {"images"}

NoId == ""

\* A delete call: i URLs are dealt with; notFound, imageErrors and docErrors count
\* the rejections the stores answered with.
\* A submission: pc is where it stands; raw the form values at handleSubmit;
\* data what onSubmit received; the rest are the locals of handleAddProduct
\* and what the call has done.
NoSubmission ==
    [pc |-> "idle", raw |-> DefaultValues, data |-> DefaultValues, reported |-> {},
     onSubmitCalls |-> 0, addDocCalls |-> 0, outcome |-> "none", toasts |-> <<>>,
     files |-> <<>>, filesUploaded |-> 0, bytes |-> 0, urls |-> <<>>,
     paths |-> <<>>, uploads |-> 0, uploadErrors |-> 0]

\* One onSnapshot subscription of the effect: unsubscribes counts the calls of
\* the unsubscribe function it returned.
NewSubscription == [state |-> "active", unsubscribes |-> 0]

\* The view after the first run of the effect.
MountedView == [mounted |-> TRUE, subs |-> <<NewSubscription>>, toasts |-> <<>>]

NoError == ""

\* The upload widget at rest: pending is the batch being uploaded, error what
\* onUploadError was last called with, toasts the notifications its callbacks showed.
NoWidgetError == [pending |-> <<>>, error |-> NoError, toasts |-> <<>>]

NoDelete ==
    [pc |-> "idle", pid |-> NoId, urls |-> <<>>, i |-> 0, deleteObjectCalls |-> 0,
     notFound |-> 0, imageErrors |-> 0, deleteDocCalls |-> 0, docErrors |-> 0,
     outcome |-> "none", toasts |-> <<>>]

InitApp ==
    /\ form = DefaultValues
    /\ errors = ImagesError({}, <<>>)
    /\ imageUrls = <<>>
    /\ sub = NoSubmission
    /\ isSubmitting = FALSE
    /\ uploadProgress = <<0, 1>>
    /\ docs = <<>>
    /\ blobs = {}
    /\ nextId = 0
    /\ products = <<>>
    /\ dels = <<>>
    /\ lastDel = NoDelete
    /\ isDeleting = NoId
    /\ view = MountedView
    /\ widget = NoWidgetError

Init ==
    /\ revision \in {"delegated", "direct"}
    /\ InitApp

-----------------------------------------------------------------------------
(* ProductForm (delegated-upload revision) *)

\* The user edits the text fields (the inputs are bound by {...field}).
TypeFields(vals) ==
    /\ view.mounted
    /\ revision = "delegated"
    /\ form' = [form EXCEPT !.name = vals.name,
                            !.shortDescription = vals.shortDescription,
                            !.fullDescription = vals.fullDescription,
                            !.regularPrice = vals.regularPrice,
                            !.tags = vals.tags]
    /\ form' # form
    /\ UNCHANGED <<revision, viewVars, errors, imageUrls, subVars, storeVars, products, delVars>>

\* {imageUrls.length < MAX_IMAGES && (<UploadDropzone ... />)}
DropzoneRendered == Len(imageUrls) < MAX_IMAGES

\* The user drops files on the UploadDropzone: the widget uploads them.
DropFiles(res) ==
    /\ view.mounted
    /\ revision = "delegated"
    /\ DropzoneRendered
    /\ widget.pending = <<>>
    /\ widget' = [widget EXCEPT !.pending = res, !.error = NoError]
    /\ UNCHANGED <<revision, view, formVars, subVars, storeVars, products, delVars>>

\* UploadDropzone onClientUploadComplete; the upload service now holds the files.
OnClientUploadComplete(res) ==
    /\ view.mounted
    /\ revision = "delegated"
    /\ DropzoneRendered
    /\ imageUrls' = imageUrls \o NewUrls(res)
    /\ form' = SyncImages(form, imageUrls')
    /\ errors' = IF imageUrls' # imageUrls THEN ImagesError(errors, imageUrls') ELSE errors
    /\ blobs' = blobs \cup {NewUrls(res)[i] : i \in 1..Len(NewUrls(res))}
    /\ widget' = [widget EXCEPT !.pending = <<>>]
    /\ UNCHANGED <<revision, view, subVars, docs, nextId, products, delVars>>

\* UploadDropzone onUploadError: console.error("Upload error:", error) only.
OnUploadError ==
    /\ view.mounted
    /\ revision = "delegated"
    /\ DropzoneRendered
    /\ widget' = [widget EXCEPT !.pending = <<>>, !.error = "UploadThingError"]
    /\ UNCHANGED <<revision, view, formVars, subVars, storeVars, products, delVars>>

\* removeImage(index): imageUrls.filter((_, i) => i !== index)
RemoveImage(index) ==
    /\ view.mounted
    /\ revision = "delegated"
    /\ index \in 1..Len(imageUrls)
    /\ imageUrls' = [i \in 1..(Len(imageUrls) - 1) |->
                        IF i < index THEN imageUrls[i] ELSE imageUrls[i + 1]]
    /\ form' = SyncImages(form, imageUrls')
    /\ errors' = ImagesError(errors, imageUrls')
    /\ UNCHANGED <<revision, viewVars, subVars, storeVars, products, delVars>>

\* form.reset(); setImageUrls([]) and the images effect that follows a change.
ResetForm ==
    /\ form' = DefaultValues
    /\ imageUrls' = <<>>
    /\ errors' = IF imageUrls # <<>> THEN ImagesError({}, <<>>) ELSE {}

\* handleFormReset: the Reset Form button, disabled while isSubmitting.
HandleFormReset ==
    /\ view.mounted
    /\ revision = "delegated"
    /\ ~isSubmitting
    /\ ResetForm
    /\ UNCHANGED <<revision, viewVars, subVars, storeVars, products, delVars>>

-----------------------------------------------------------------------------
(* Product Write Path: handleAddProduct *)

DocIds(ds) == {ds[i].id : i \in 1..Len(ds)}

\* Firestore auto-ids: every one is new.
IdOf(n) == "id" \o ToString(n)

\* The record passed to addDoc; createdAt: new Date(), read off the id counter.
NewDoc(id, now, data, urls) ==
    [id |-> id, name |-> data.name, shortDescription |-> data.shortDescription,
     fullDescription |-> data.fullDescription, regularPrice |-> data.regularPrice,
     salePrice |-> data.salePrice, tags |-> TagsOf(data.tags), imageUrls |-> urls,
     createdAt |-> now]

\* The call has returned: what stays is what it did, not its arguments.
Returned(s) ==
    [s EXCEPT !.pc = "done", !.raw = DefaultValues, !.data = DefaultValues,
              !.files = <<>>, !.bytes = 0]

\* catch (error) { console.error; toast destructive }: no retry, no rethrow.
CatchAddError(s) ==
    [Returned(s) EXCEPT !.outcome = "failure", !.toasts = Append(@, "add-failure")]

\* toast({ title: "Success!" }) after the await of addDoc.
AfterAddDoc(s) ==
    [Returned(s) EXCEPT !.outcome = "success", !.toasts = Append(@, "add-success")]

\* handleAddProduct catches every error: its promise never rejects.
HandleAddProductThrew(s) == FALSE

\* internalSubmit after `await onSubmit(data)`: reset in the try, nothing in the
\* catch.  The direct-upload revision's form is not in the sources.
InternalSubmitReturn(threw) ==
    IF revision = "delegated" /\ ~threw
    THEN ResetForm
    ELSE UNCHANGED formVars

\* finally { setIsSubmitting(false); setUploadProgress(0) }
Finally ==
    /\ isSubmitting' = FALSE
    /\ uploadProgress' = <<0, 1>>

\* form.handleSubmit(internalSubmit, onInvalid) up to the await of addDoc:
\* resolver, then internalSubmit -> onSubmit -> handleAddProduct, which sets
\* isSubmitting, the progress 20 and then 80, and calls addDoc.
HandleSubmit ==
    /\ view.mounted
    /\ revision = "delegated"
    /\ ~isSubmitting
    /\ LET errs == SchemaErrors(form)
       IN  IF errs # {}
           THEN /\ errors' = errs
                /\ sub' = [NoSubmission EXCEPT !.pc = "blocked", !.raw = form,
                                               !.reported = errs]
                /\ UNCHANGED <<isSubmitting, uploadProgress>>
           ELSE /\ nextId < MaxIds
                /\ errors' = {}
                /\ sub' = [NoSubmission EXCEPT !.pc = "addDoc", !.raw = form,
                                               !.data = Parsed(form),
                                               !.onSubmitCalls = 1,
                                               !.urls = Parsed(form).images,
                                               !.addDocCalls = 1]
                /\ isSubmitting' = TRUE
                /\ uploadProgress' = <<80, 1>>
    /\ UNCHANGED <<revision, viewVars, form, imageUrls, storeVars, products, delVars>>

\* addDoc resolves: the document is in the collection under a new id.
AddDocResolves ==
    /\ sub.pc = "addDoc"
    /\ nextId' = nextId + 1
    /\ docs' = Append(docs, NewDoc(IdOf(nextId'), nextId', sub.data, sub.urls))
    /\ sub' = AfterAddDoc(sub)
    /\ Finally
    /\ InternalSubmitReturn(HandleAddProductThrew(sub'))
    /\ UNCHANGED <<revision, viewVars, blobs, products, delVars>>

\* Mutant: the catch block calls addDoc again.
AddDocRejectsRetried ==
    /\ sub.pc = "addDoc"
    /\ sub.addDocCalls < 3
    /\ sub' = [sub EXCEPT !.addDocCalls = @ + 1]
    /\ UNCHANGED <<revision, viewVars, formVars, isSubmitting, uploadProgress, storeVars,
                   products, delVars>>

\* addDoc rejects (network, permission): nothing was written.
AddDocRejects ==
    /\ sub.pc = "addDoc"
    /\ sub' = CatchAddError(sub)
    /\ Finally
    /\ InternalSubmitReturn(HandleAddProductThrew(sub'))
    /\ UNCHANGED <<revision, viewVars, storeVars, products, delVars>>

-----------------------------------------------------------------------------
(* Image Acquisition, direct-upload revision: the file loop of handleAddProduct *)

FileNames == {"f" \o ToString(n) : n \in 1..MaxFileNames}

FileLists == UNION {[1..n -> FileNames] : n \in 1..MaxFiles}

\* What the direct-upload form hands to onSubmit: validated fields and a FileList.
ValidFields ==
    [name |-> Str(MIN_NAME), shortDescription |-> Str(MIN_SHORT),
     fullDescription |-> Str(MIN_FULL), regularPrice |-> "20", salePrice |-> Null,
     tags |-> <<"a", ",", " ", "b">>, images |-> <<>>]

\* ref(storage, `products/${productId}/${file.name}`)
StoragePath(productId, fileName) == <<"products", productId, fileName>>

\* getDownloadURL(ref) and ref(storage, url): the URL names the object's path.
DownloadUrl(path) == <<Scheme>> \o path
RefOfUrl(url) == Tail(url)

\* Mutant: the files already uploaded are left out of the sum.
OverallProgressOfFile(filesUploaded, bytesTransferred, totalBytes, totalFiles) ==
    <<100 * bytesTransferred, totalFiles * totalBytes>>

\* ((filesUploaded + (progress / 100)) / totalFiles) * 100 with
\* progress = (bytesTransferred / totalBytes) * 100, as the fraction <<num, den>>.
OverallProgress(filesUploaded, bytesTransferred, totalBytes, totalFiles) ==
    <<100 * (filesUploaded * totalBytes + bytesTransferred), totalFiles * totalBytes>>

\* One turn of `for (const file of imageFiles)`: a new id from a throwaway
\* document handle, the storage reference, and the upload task started.
StartUpload(s, id) ==
    [s EXCEPT !.pc = "upload", !.bytes = 0,
              !.paths = Append(@, StoragePath(id, s.files[Len(s.paths) + 1]))]

\* The loop is over: addDoc is called with the collected URLs.
CallAddDoc(s) == [s EXCEPT !.pc = "addDoc", !.addDocCalls = @ + 1]

\* onSubmit(data) of the direct-upload revision, up to the first await.
SubmitFiles(files) ==
    /\ view.mounted
    /\ revision = "direct"
    /\ ~isSubmitting
    /\ nextId < MaxIds
    /\ isSubmitting' = TRUE
    /\ uploadProgress' = <<0, 1>>
    /\ nextId' = nextId + 1
    /\ sub' = StartUpload([NoSubmission EXCEPT !.raw = ValidFields, !.data = Parsed(ValidFields),
                                               !.onSubmitCalls = 1, !.files = files],
                          IdOf(nextId'))
    /\ UNCHANGED <<revision, viewVars, formVars, docs, blobs, products, delVars>>

\* state_changed, next(snapshot): bytesTransferred is cumulative.
UploadStateChanged(bytesTransferred) ==
    /\ sub.pc = "upload"
    /\ bytesTransferred >= sub.bytes
    /\ sub' = [sub EXCEPT !.bytes = bytesTransferred]
    /\ uploadProgress' = OverallProgress(sub.filesUploaded, bytesTransferred,
                                         MaxBytes, Len(sub.files))
    /\ UNCHANGED <<revision, viewVars, formVars, isSubmitting, storeVars, products, delVars>>

\* Mutant: the error observer resolves, and the loop goes on to addDoc.
UploadFailsPassedOver ==
    /\ sub.pc = "upload"
    /\ sub' = CallAddDoc([sub EXCEPT !.uploadErrors = @ + 1])
    /\ UNCHANGED <<revision, viewVars, formVars, isSubmitting, uploadProgress, storeVars,
                   products, delVars>>

\* state_changed, error: reject(error), caught by handleAddProduct.
UploadFails ==
    /\ sub.pc = "upload"
    /\ sub' = [CatchAddError(sub) EXCEPT !.uploadErrors = @ + 1]
    /\ Finally
    /\ InternalSubmitReturn(HandleAddProductThrew(sub'))
    /\ UNCHANGED <<revision, viewVars, storeVars, products, delVars>>

\* state_changed, complete: the object is stored; the callback awaits getDownloadURL.
UploadCompletes ==
    /\ sub.pc = "upload"
    /\ blobs' = blobs \cup {sub.paths[Len(sub.paths)]}
    /\ sub' = [sub EXCEPT !.pc = "getUrl", !.uploads = @ + 1]
    /\ UNCHANGED <<revision, viewVars, formVars, isSubmitting, uploadProgress, docs, nextId,
                   products, delVars>>

\* Mutant: the URL is put in front of the collected ones.
GetDownloadUrlResolvesUnshift ==
    /\ sub.pc = "getUrl"
    /\ LET s == [sub EXCEPT !.urls = <<DownloadUrl(sub.paths[Len(sub.paths)])>> \o @,
                            !.filesUploaded = @ + 1]
       IN  IF Len(s.paths) < Len(s.files)
           THEN /\ nextId' = nextId + 1
                /\ sub' = StartUpload(s, IdOf(nextId'))
           ELSE /\ nextId' = nextId
                /\ sub' = CallAddDoc(s)
    /\ UNCHANGED <<revision, viewVars, formVars, isSubmitting, uploadProgress, docs, blobs,
                   products, delVars>>

\* getDownloadURL resolves: imageUrls.push(downloadURL); filesUploaded++; resolve();
\* then the next file, or addDoc.
GetDownloadUrlResolves ==
    /\ sub.pc = "getUrl"
    /\ LET s == [sub EXCEPT !.urls = Append(@, DownloadUrl(sub.paths[Len(sub.paths)])),
                            !.filesUploaded = @ + 1]
       IN  IF Len(s.paths) < Len(s.files)
           THEN /\ nextId' = nextId + 1
                /\ sub' = StartUpload(s, IdOf(nextId'))
           ELSE /\ nextId' = nextId
                /\ sub' = CallAddDoc(s)
    /\ UNCHANGED <<revision, viewVars, formVars, isSubmitting, uploadProgress, docs, blobs,
                   products, delVars>>

\* getDownloadURL rejects inside the async completion callback: nothing catches
\* it, resolve() is never called and the awaited promise never settles.
GetDownloadUrlRejects ==
    /\ sub.pc = "getUrl"
    /\ sub' = [sub EXCEPT !.pc = "hung"]
    /\ UNCHANGED <<revision, viewVars, formVars, isSubmitting, uploadProgress, storeVars,
                   products, delVars>>

-----------------------------------------------------------------------------
(* Product Read Path: the onSnapshot listener *)

\* query(collection(db, 'products'), orderBy('createdAt', 'desc'))
RECURSIVE OrderByCreatedAtDesc(_)
OrderByCreatedAtDesc(ds) ==
    IF ds = <<>> THEN <<>>
    ELSE LET k == CHOOSE i \in 1..Len(ds) :
                      \A j \in 1..Len(ds) : ds[j].createdAt <= ds[i].createdAt
             rest == [i \in 1..(Len(ds) - 1) |-> IF i < k THEN ds[i] ELSE ds[i + 1]]
         IN  <<ds[k]>> \o OrderByCreatedAtDesc(rest)

\* The subscriptions whose listener the store still calls.
Active(v) == {l \in 1..Len(v.subs) : v.subs[l].state = "active"}

\* Mutant: the listener adds the records not yet listed and removes none.
OnSnapshotMerged ==
    /\ Active(view) # {}
    /\ products # OrderByCreatedAtDesc(docs)
    /\ products' = products \o SelectSeq(docs, LAMBDA d : d.id \notin DocIds(products))
    /\ UNCHANGED <<revision, viewVars, formVars, subVars, storeVars, delVars>>

\* The listener: productsData built with forEach, then setProducts(productsData).
OnSnapshot ==
    /\ Active(view) # {}
    /\ products # OrderByCreatedAtDesc(docs)
    /\ products' = OrderByCreatedAtDesc(docs)
    /\ UNCHANGED <<revision, viewVars, formVars, subVars, storeVars, delVars>>

\* The error callback of onSnapshot: the destructive toast; the store calls a
\* failed listener no more.
OnSnapshotError ==
    /\ \E l \in Active(view) :
           view' = [view EXCEPT !.subs[l].state = "failed",
                                !.toasts = Append(@, "fetch-failure")]
    /\ UNCHANGED <<revision, widget, formVars, subVars, storeVars, products, delVars>>

\* return () => unsubscribe(): the cleanup of the effect's last run.
Cleanup(v) ==
    [v EXCEPT !.subs[Len(v.subs)] = [state |-> "unsubscribed",
                                      unsubscribes |-> @.unsubscribes + 1]]

\* The effect runs again (its dependency changed): cleanup, then a new subscription.
EffectRerun ==
    /\ view.mounted
    /\ Len(view.subs) < MaxSubscriptions
    /\ view' = [Cleanup(view) EXCEPT !.subs = Append(@, NewSubscription)]
    /\ UNCHANGED <<revision, widget, formVars, subVars, storeVars, products, delVars>>

\* Mutant: the effect returns no cleanup.
UnmountWithoutCleanup ==
    /\ view.mounted
    /\ view' = [view EXCEPT !.mounted = FALSE]
    /\ UNCHANGED <<revision, widget, formVars, subVars, storeVars, products, delVars>>

\* The view is unmounted: React runs the cleanup.
Unmount ==
    /\ view.mounted
    /\ view' = [Cleanup(view) EXCEPT !.mounted = FALSE]
    /\ UNCHANGED <<revision, widget, formVars, subVars, storeVars, products, delVars>>

-----------------------------------------------------------------------------
(* Product Delete Path: ProductTable.handleDelete and handleDeleteProduct *)

\* The image resource a product's URL refers to.
ResourceOf(url) == IF revision = "direct" THEN RefOfUrl(url) ELSE url

\* The image resources the stored documents refer to.
ReferencedBy(ds) ==
    UNION {{ResourceOf(ds[i].imageUrls[j]) : j \in 1..Len(ds[i].imageUrls)} :
              i \in 1..Len(ds)}

RemoveAt(xs, k) == [i \in 1..(Len(xs) - 1) |-> IF i < k THEN xs[i] ELSE xs[i + 1]]

\* deleteDoc(doc(db, 'products', productId)): a missing document is no error.
WithoutDoc(ds, pid) ==
    LET keep == {i \in 1..Len(ds) : ds[i].id # pid}
        F[i \in 0..Len(ds)] ==
            IF i = 0 THEN <<>>
            ELSE IF i \in keep THEN Append(F[i - 1], ds[i]) ELSE F[i - 1]
    IN  F[Len(ds)]

\* The first await of handleDeleteProduct: deleteObject of the first URL in the
\* direct-upload revision, deleteDoc at once in the delegated one.
FirstDeleteStep(d) ==
    IF revision = "direct" /\ d.urls # <<>>
    THEN [d EXCEPT !.pc = "deleteObject", !.deleteObjectCalls = 1]
    ELSE [d EXCEPT !.pc = "deleteDoc", !.deleteDocCalls = 1]

\* After one image is dealt with: the next URL, or the document.
NextDeleteStep(d) ==
    IF d.i < Len(d.urls)
    THEN [d EXCEPT !.pc = "deleteObject", !.deleteObjectCalls = @ + 1]
    ELSE [d EXCEPT !.pc = "deleteDoc", !.deleteDocCalls = @ + 1]

\* handleDeleteProduct returns, then handleDelete runs setIsDeleting(null).
Returns(c, d) ==
    /\ dels' = RemoveAt(dels, c)
    /\ lastDel' = d
    /\ isDeleting' = NoId

\* ProductTable.handleDelete(product): the confirmed delete of a displayed row,
\* whose button is disabled while isDeleting === product.id.
HandleDelete(k) ==
    /\ view.mounted
    /\ k \in 1..Len(products)
    /\ isDeleting # products[k].id
    /\ isDeleting' = products[k].id
    /\ dels' = Append(dels, FirstDeleteStep([NoDelete EXCEPT !.pid = products[k].id,
                                                            !.urls = products[k].imageUrls]))
    /\ UNCHANGED <<revision, viewVars, formVars, subVars, storeVars, products, lastDel>>

\* deleteObject(imageRef) resolves: the object is gone.
DeleteObjectResolves(c) ==
    /\ c \in 1..Len(dels)
    /\ dels[c].pc = "deleteObject"
    /\ ResourceOf(dels[c].urls[dels[c].i + 1]) \in blobs
    /\ blobs' = blobs \ {ResourceOf(dels[c].urls[dels[c].i + 1])}
    /\ dels' = [dels EXCEPT ![c] = NextDeleteStep([@ EXCEPT !.i = @ + 1])]
    /\ UNCHANGED <<revision, viewVars, formVars, subVars, docs, nextId, products, lastDel, isDeleting>>

\* Mutant: the .catch rethrows whatever the code is.
DeleteObjectNotFoundRethrown(c) ==
    /\ c \in 1..Len(dels)
    /\ dels[c].pc = "deleteObject"
    /\ ResourceOf(dels[c].urls[dels[c].i + 1]) \notin blobs
    /\ Returns(c, [dels[c] EXCEPT !.pc = "done", !.outcome = "failure",
                                  !.notFound = @ + 1,
                                  !.toasts = Append(@, "delete-failure")])
    /\ UNCHANGED <<revision, viewVars, formVars, subVars, storeVars, products>>

\* deleteObject rejects with storage/object-not-found: the .catch swallows it.
DeleteObjectNotFound(c) ==
    /\ c \in 1..Len(dels)
    /\ dels[c].pc = "deleteObject"
    /\ ResourceOf(dels[c].urls[dels[c].i + 1]) \notin blobs
    /\ dels' = [dels EXCEPT ![c] = NextDeleteStep([@ EXCEPT !.i = @ + 1,
                                                           !.notFound = @ + 1])]
    /\ UNCHANGED <<revision, viewVars, formVars, subVars, storeVars, products, lastDel, isDeleting>>

\* Mutant: the .catch swallows every error.
DeleteObjectRejectsSwallowed(c) ==
    /\ c \in 1..Len(dels)
    /\ dels[c].pc = "deleteObject"
    /\ dels' = [dels EXCEPT ![c] = NextDeleteStep([@ EXCEPT !.i = @ + 1,
                                                           !.imageErrors = @ + 1])]
    /\ UNCHANGED <<revision, viewVars, formVars, subVars, storeVars, products, lastDel, isDeleting>>

\* deleteObject rejects with any other code: the .catch rethrows, the outer
\* catch shows the failure toast.
DeleteObjectRejects(c) ==
    /\ c \in 1..Len(dels)
    /\ dels[c].pc = "deleteObject"
    /\ Returns(c, [dels[c] EXCEPT !.pc = "done", !.outcome = "failure",
                                  !.imageErrors = @ + 1,
                                  !.toasts = Append(@, "delete-failure")])
    /\ UNCHANGED <<revision, viewVars, formVars, subVars, storeVars, products>>

\* deleteDoc resolves: the document is gone; the success toast.
DeleteDocResolves(c) ==
    /\ c \in 1..Len(dels)
    /\ dels[c].pc = "deleteDoc"
    /\ docs' = WithoutDoc(docs, dels[c].pid)
    /\ Returns(c, [dels[c] EXCEPT !.pc = "done", !.outcome = "success",
                                  !.toasts = Append(@, "delete-success")])
    /\ UNCHANGED <<revision, viewVars, formVars, subVars, blobs, nextId, products>>

\* deleteDoc rejects: the failure toast.
DeleteDocRejects(c) ==
    /\ c \in 1..Len(dels)
    /\ dels[c].pc = "deleteDoc"
    /\ Returns(c, [dels[c] EXCEPT !.pc = "done", !.outcome = "failure",
                                  !.docErrors = @ + 1,
                                  !.toasts = Append(@, "delete-failure")])
    /\ UNCHANGED <<revision, viewVars, formVars, subVars, storeVars, products>>

-----------------------------------------------------------------------------
(* The application *)

\* What the user types in the running application.
TypedInputs == {ValidFields}

RECURSIVE SeqsUpTo(_, _)
SeqsUpTo(S, n) ==
    IF n = 0 THEN {<<>>}
    ELSE LET shorter == SeqsUpTo(S, n - 1)
         IN  shorter \cup {Append(s, x) : s \in shorter, x \in S}

Batches == SeqsUpTo({DescUrl}, MaxBatch) \ {<<>>}

Calls == 1..MaxInFlight

Next ==
    \/ \E vals \in TypedInputs : TypeFields(vals)
    \/ \E res \in Batches : OnClientUploadComplete(res)
    \/ \E index \in 1..(MAX_IMAGES + MaxBatch) : RemoveImage(index)
    \/ HandleFormReset
    \/ HandleSubmit
    \/ AddDocResolves
    \/ AddDocRejects
    \/ \E files \in FileLists : SubmitFiles(files)
    \/ \E b \in 0..MaxBytes : UploadStateChanged(b)
    \/ UploadFails
    \/ UploadCompletes
    \/ GetDownloadUrlResolves
    \/ GetDownloadUrlRejects
    \/ OnSnapshot
    \/ \E k \in 1..MaxIds : Len(dels) < MaxInFlight /\ HandleDelete(k)
    \/ \E c \in Calls : DeleteObjectResolves(c)
    \/ \E c \in Calls : DeleteObjectNotFound(c)
    \/ \E c \in Calls : DeleteObjectRejects(c)
    \/ \E c \in Calls : DeleteDocResolves(c)
    \/ \E c \in Calls : DeleteDocRejects(c)

Spec == Init /\ [][Next]_vars

-----------------------------------------------------------------------------
(* The form's input space: what the user may have typed and uploaded when the
   submit button is pressed *)

UrlB == UrlOf(DescKey)

ExampleTags ==
    <<"S", "u", "m", "m", "e", "r", ",", " ", ",", " ", "C", "o", "t", "t", "o", "n", ",">>

NameInputs == {Str(n) : n \in {0, MIN_NAME - 1, MIN_NAME}}
ShortInputs == {Str(n) : n \in {MIN_SHORT - 1, MIN_SHORT, MAX_SHORT, MAX_SHORT + 1}}
FullInputs == {Str(n) : n \in {MIN_FULL - 1, MIN_FULL}}
PriceInputs == {"abc", "", "-1", "0", "1"}
TagInputs == StringsUpTo({"a", "b", ",", " "}, MaxTagLen) \cup {Absent, ExampleTags}
ImageInputs == SeqsUpTo({UrlA, UrlB, NotAUrl}, MAX_IMAGES + 1)

FormInputs ==
    {[ValidFields EXCEPT !.name = n, !.shortDescription = s, !.fullDescription = f,
                         !.regularPrice = p, !.images = imgs] :
        n \in NameInputs, s \in ShortInputs, f \in FullInputs, p \in PriceInputs,
        imgs \in ImageInputs}
    \cup {[ValidFields EXCEPT !.tags = t, !.images = <<UrlA>>] : t \in TagInputs}

InitInputs ==
    /\ revision = "delegated"
    /\ form \in FormInputs
    /\ imageUrls = form.images
    /\ errors = ImagesError({}, imageUrls)
    /\ sub = NoSubmission
    /\ isSubmitting = FALSE
    /\ uploadProgress = <<0, 1>>
    /\ docs = <<>>
    /\ blobs = {imageUrls[i] : i \in 1..Len(imageUrls)}
    /\ nextId = 0
    /\ products = <<>>
    /\ dels = <<>>
    /\ lastDel = NoDelete
    /\ isDeleting = NoId
    /\ view = MountedView
    /\ widget = NoWidgetError

NextInputs ==
    \/ HandleSubmit
    \/ AddDocResolves
    \/ AddDocRejects

SpecInputs == InitInputs /\ [][NextInputs]_vars

-----------------------------------------------------------------------------
(* The upload surface: every kind of descriptor the widget may hand over, and
   its error callback *)

DescBatches == SeqsUpTo(Descs, MaxBatch) \ {<<>>}

NextUpload ==
    \/ \E res \in DescBatches : DropFiles(res)
    \/ widget.pending # <<>> /\ OnClientUploadComplete(widget.pending)
    \/ widget.pending # <<>> /\ OnUploadError
    \/ \E index \in 1..(MAX_IMAGES + MaxBatch) : RemoveImage(index)

InitUpload ==
    /\ revision = "delegated"
    /\ InitApp

SpecUpload == InitUpload /\ [][NextUpload]_vars

-----------------------------------------------------------------------------
(* The live view: the list over a collection that already holds a product, the
   subscription's life cycle, the submissions and the deletes *)

\* Two products stored by earlier sessions, the older one last.
StoredDocs ==
    <<NewDoc("old2", 0, Parsed(ValidFields), <<UrlA>>),
      NewDoc("old1", -1, Parsed(ValidFields), <<UrlB>>)>>

ViewIds == DocIds(StoredDocs) \cup {IdOf(n) : n \in 1..MaxIds}

InitView ==
    /\ revision = "delegated"
    /\ form = [ValidFields EXCEPT !.images = <<UrlA>>]
    /\ imageUrls = <<UrlA>>
    /\ errors = {}
    /\ sub = NoSubmission
    /\ isSubmitting = FALSE
    /\ uploadProgress = <<0, 1>>
    /\ docs = <<StoredDocs[1]>>
    /\ blobs = {UrlA}
    /\ nextId = 0
    /\ products = <<>>
    /\ dels = <<>>
    /\ lastDel = NoDelete
    /\ isDeleting = NoId
    /\ view = MountedView
    /\ widget = NoWidgetError

NextView ==
    \/ OnSnapshot
    \/ OnSnapshotError
    \/ EffectRerun
    \/ Unmount
    \/ HandleSubmit
    \/ AddDocResolves
    \/ AddDocRejects
    \/ \E k \in 1..(1 + MaxIds) : Len(dels) < MaxInFlight /\ HandleDelete(k)
    \/ \E c \in Calls : DeleteDocResolves(c)
    \/ \E c \in Calls : DeleteDocRejects(c)

\* While a listener is subscribed the store calls it after every change.
SpecView == InitView /\ [][NextView]_vars /\ WF_vars(OnSnapshot)

-----------------------------------------------------------------------------
(* The product table: deletes of the listed products, one overlapping another *)

\* The same two products as the direct-upload revision stores them.
StoredDocsDirect ==
    <<NewDoc("old2", 0, Parsed(ValidFields), <<DownloadUrl(StoragePath("old2f", "f1"))>>),
      NewDoc("old1", -1, Parsed(ValidFields), <<DownloadUrl(StoragePath("old1f", "f1"))>>)>>

InitTable ==
    /\ revision \in {"delegated", "direct"}
    /\ form = DefaultValues
    /\ errors = ImagesError({}, <<>>)
    /\ imageUrls = <<>>
    /\ sub = NoSubmission
    /\ isSubmitting = FALSE
    /\ uploadProgress = <<0, 1>>
    /\ docs = IF revision = "direct" THEN StoredDocsDirect ELSE StoredDocs
    /\ blobs = ReferencedBy(docs)
    /\ nextId = 0
    /\ products = <<>>
    /\ dels = <<>>
    /\ lastDel = NoDelete
    /\ isDeleting = NoId
    /\ view = MountedView
    /\ widget = NoWidgetError

Overlapping == 1..MaxOverlap

NextTable ==
    \/ OnSnapshot
    \/ \E k \in 1..Len(StoredDocs) : Len(dels) < MaxOverlap /\ HandleDelete(k)
    \/ \E c \in Overlapping : DeleteObjectResolves(c)
    \/ \E c \in Overlapping : DeleteObjectNotFound(c)
    \/ \E c \in Overlapping : DeleteObjectRejects(c)
    \/ \E c \in Overlapping : DeleteDocResolves(c)
    \/ \E c \in Overlapping : DeleteDocRejects(c)

SpecTable == InitTable /\ [][NextTable]_vars

-----------------------------------------------------------------------------
(* Properties *)

AllDeletes == {dels[c] : c \in 1..Len(dels)} \cup {lastDel}

\* A handleDeleteProduct call returned in this step.
DeleteReturned == Len(dels') < Len(dels)

\* handleAddProduct returned in this step.
AddReturned == sub.pc \in {"upload", "getUrl", "addDoc"} /\ sub'.pc = "done"

InFlight(s) == s.pc \in {"upload", "getUrl", "addDoc", "hung"}

\* Progress values are fractions <<num, den>> of a percentage.
Leq(p, q) == p[1] * q[2] <= q[1] * p[2]
Is100(p) == p[1] = 100 * p[2]

\* C1: when addDoc fails, the failed submission leaves the form field values and
\* the accumulated image URL list of ProductForm as they were.
C1_FormKeptOnFailure ==
    [][(revision = "delegated" /\ AddReturned /\ sub'.outcome = "failure")
          => (form' = form /\ imageUrls' = imageUrls)]_vars

ImageFailureAborts(d) ==
    d.imageErrors > 0 =>
        /\ d.pc = "done"
        /\ d.outcome = "failure"
        /\ d.toasts = <<"delete-failure">>
        /\ d.deleteObjectCalls = d.i + 1
        /\ d.deleteDocCalls = 0

\* C2: direct-upload handleDeleteProduct: once an image deletion fails with an
\* error other than object-not-found, no further deleteObject and no deleteDoc
\* is called, the document store is left as it was, and the call ends with the
\* failure notification and no success notification.
C2_ImageFailureKeepsDocument ==
    [][revision = "direct" =>
          /\ \A d \in AllDeletes' : ImageFailureAborts(d)
          /\ (DeleteReturned /\ lastDel'.imageErrors > 0) => docs' = docs]_vars

C2_Witness ==
    /\ revision = "direct"
    /\ lastDel.imageErrors = 1
    /\ Len(lastDel.urls) = 2
    /\ lastDel.i = 0
    /\ lastDel.pid \in DocIds(docs)

AllNotFound(d) == d.urls # <<>> /\ d.notFound = Len(d.urls)

NotFoundTolerated(d) ==
    AllNotFound(d) =>
        /\ d.i = Len(d.urls)
        /\ d.deleteObjectCalls = Len(d.urls)
        /\ d.imageErrors = 0
        /\ d.deleteDocCalls = 1
        /\ d.pc \in {"deleteDoc", "done"}
        /\ (d.pc = "done" /\ d.docErrors = 0) =>
               (d.outcome = "success" /\ d.toasts = <<"delete-success">>)

\* C3: direct-upload handleDeleteProduct of a product whose every image is
\* already absent: each not-found is passed over, the loop visits every URL,
\* deleteDoc is called, and when deleteDoc resolves the document is gone and the
\* success notification is the one shown.
C3_AbsentImagesDoNotBlock ==
    [][revision = "direct" =>
          /\ \A d \in AllDeletes' : NotFoundTolerated(d)
          /\ (DeleteReturned /\ AllNotFound(lastDel') /\ lastDel'.docErrors = 0)
                => lastDel'.pid \notin DocIds(docs')]_vars

C3_Witness ==
    /\ revision = "direct"
    /\ Len(lastDel.urls) = 2
    /\ lastDel.notFound = 2
    /\ lastDel.outcome = "success"
    /\ lastDel.pid \notin DocIds(docs)

\* C4: when handleDeleteProduct reports success for a product, none of the
\* image resources its imageUrls refer to remain in the image store.
C4_SuccessfulDeleteRemovesImages ==
    [][(DeleteReturned /\ lastDel'.outcome = "success")
          => \A i \in 1..Len(lastDel'.urls) :
                 ResourceOf(lastDel'.urls[i]) \notin blobs']_vars

\* The constraints as the claim words them.
Offending(v) ==
    {f \in {"name"} : Len(v.name) < 3}
    \cup {f \in {"shortDescription"} :
             Len(v.shortDescription) < 10 \/ Len(v.shortDescription) > 120}
    \cup {f \in {"fullDescription"} : Len(v.fullDescription) < 10}
    \cup {f \in {"regularPrice"} : v.regularPrice \notin {"1", "20"}}
    \cup {f \in {"images"} :
             \/ Len(v.images) = 0
             \/ Len(v.images) > 3
             \/ \E i \in 1..Len(v.images) : v.images[i] \notin {UrlA, UrlB}}

\* C5: a submission whose form input violates a schema constraint is blocked:
\* onSubmit is not invoked, addDoc is not called, every offending field has a
\* reported violation; and no stored document ever violates a constraint.
C5_InvalidInputIsBlocked ==
    /\ (sub.pc \in {"blocked", "addDoc"} /\ Offending(sub.raw) # {}) =>
           /\ sub.pc = "blocked"
           /\ sub.onSubmitCalls = 0
           /\ sub.addDocCalls = 0
           /\ ~isSubmitting
           /\ Offending(sub.raw) \subseteq sub.reported
           /\ sub.reported \subseteq errors
    /\ \A i \in 1..Len(docs) :
           /\ Len(docs[i].name) >= 3
           /\ Len(docs[i].imageUrls) \in 1..3

C5_Witness ==
    /\ sub.pc = "blocked"
    /\ Len(sub.raw.name) = 2
    /\ sub.reported = {"name"}
    /\ docs = <<>>

\* The tags transform as the claim words it: the maximal comma-free stretches
\* of the input, in order, each cut down to its first and last non-space
\* character, those without one left out.
Stretches(r) ==
    {pq \in (0..Len(r)) \X (1..(Len(r) + 1)) :
        /\ pq[1] < pq[2]
        /\ pq[1] = 0 \/ r[pq[1]] = ","
        /\ pq[2] = Len(r) + 1 \/ r[pq[2]] = ","
        /\ \A i \in (pq[1] + 1)..(pq[2] - 1) : r[i] # ","}

Inked(r, pq) == {i \in (pq[1] + 1)..(pq[2] - 1) : r[i] # " "}

Least(S) == CHOOSE x \in S : \A y \in S : x <= y
Greatest(S) == CHOOSE x \in S : \A y \in S : y <= x

ExpectedTags(r) ==
    IF r = Absent THEN <<>>
    ELSE LET kept == {pq \in Stretches(r) : Inked(r, pq) # {}}
             nth(k) == CHOOSE pq \in kept :
                           Cardinality({o \in kept : o[1] <= pq[1]}) = k
         IN  [k \in 1..Cardinality(kept) |->
                 SubSeq(r, Least(Inked(r, nth(k))), Greatest(Inked(r, nth(k))))]

\* C6: the tags of the record a successful submission appends are the raw tags
\* input split on commas, each token trimmed, empty tokens dropped, order and
\* duplicates kept; an empty or absent input gives the empty sequence.
C6_TagsTransform ==
    [][(AddReturned /\ sub'.outcome = "success") =>
          /\ Len(docs') = Len(docs) + 1
          /\ docs'[Len(docs')].tags = ExpectedTags(sub.raw.tags)
          /\ (sub.raw.tags \in {<<>>, Absent} => docs'[Len(docs')].tags = <<>>)]_vars

C6_Witness ==
    \E i \in 1..Len(docs) :
        docs[i].tags = << <<"S", "u", "m", "m", "e", "r">>, <<"C", "o", "t", "t", "o", "n">> >>

\* C7: one handleAddProduct call makes at most one addDoc call; a call ending
\* with the success notification has appended exactly one new document, a call
\* ending with the failure notification none; no step changes a document that
\* is already stored.
C7_OneAppendPerCall ==
    [][/\ sub'.addDocCalls <= 1
       /\ (AddReturned /\ sub'.outcome = "success") =>
              /\ sub'.toasts = <<"add-success">>
              /\ Len(docs') = Len(docs) + 1
              /\ SubSeq(docs', 1, Len(docs)) = docs
              /\ docs'[Len(docs')].id \notin DocIds(docs)
       /\ (AddReturned /\ sub'.outcome = "failure") =>
              /\ sub'.toasts = <<"add-failure">>
              /\ docs' = docs
       /\ \A i \in 1..Len(docs) : \A j \in 1..Len(docs') :
              docs[i].id = docs'[j].id => docs[i] = docs'[j]]_vars

C7_Witness ==
    /\ revision = "direct"
    /\ sub.pc = "done"
    /\ sub.outcome = "success"
    /\ sub.uploads = 2
    /\ sub.addDocCalls = 1
    /\ Len(docs) = 1

C9_AtMostThreeImages ==
    revision = "delegated" =>
        /\ Len(imageUrls) <= 3
        /\ DropzoneRendered <=> Len(imageUrls) < 3

\* C10: all files uploaded by one direct-upload handleAddProduct call are
\* stored under the same products/<id>/ prefix.
C10_OneIdPerSubmission ==
    revision = "direct" =>
        \A i, j \in 1..Len(sub.paths) : sub.paths[i][2] = sub.paths[j][2]

\* C11: direct-upload handleAddProduct: once the upload of a file has failed,
\* the call is over with the failure notification alone, the failed file is the
\* last one whose upload was started, addDoc was not called and no document
\* refers to the submission's files, and the files uploaded before the failure
\* are still in the image store.
C11_UploadFailureAborts ==
    (revision = "direct" /\ sub.uploadErrors > 0) =>
        /\ sub.pc = "done"
        /\ sub.outcome = "failure"
        /\ sub.toasts = <<"add-failure">>
        /\ sub.uploadErrors = 1
        /\ Len(sub.paths) = sub.uploads + 1
        /\ sub.addDocCalls = 0
        /\ \A i \in 1..Len(sub.paths) : sub.paths[i] \notin ReferencedBy(docs)
        /\ \A i \in 1..sub.uploads : sub.paths[i] \in blobs

C11_Witness ==
    /\ revision = "direct"
    /\ sub.pc = "done"
    /\ sub.uploadErrors = 1
    /\ sub.uploads = 1
    /\ Len(sub.paths) = 2
    /\ sub.paths[1] \in blobs
    /\ docs = <<>>

\* list holds the records of ds, each once, the newest first.
IsSnapshotOf(list, ds) ==
    /\ Len(list) = Len(ds)
    /\ {list[i] : i \in 1..Len(list)} = {ds[i] : i \in 1..Len(ds)}
    /\ \A i, j \in 1..Len(list) : i < j => list[i].createdAt > list[j].createdAt

\* The list is replaced by nothing but a snapshot delivered to a subscribed
\* listener: no step of the write or the delete path sets it.
ListIsLastSnapshot ==
    [][products' # products =>
          /\ IsSnapshotOf(products', docs)
          /\ Active(view) # {}
          /\ UNCHANGED <<sub, docs, dels, lastDel>>]_vars

Subscribed == view.mounted /\ Active(view) # {}

\* C12 as claimed: the displayed list is always the snapshot delivered last,
\* and while the view is mounted every stored record comes to be listed and
\* every removed record comes to be unlisted.
C12_ListFollowsStore ==
    /\ ListIsLastSnapshot
    /\ \A id \in ViewIds :
           /\ (id \in DocIds(docs)) ~> (id \in DocIds(products) \/ ~view.mounted)
           /\ (id \notin DocIds(docs)) ~> (id \notin DocIds(products) \/ ~view.mounted)

\* C12 as amended: the displayed list is always the snapshot delivered last,
\* and while the view is mounted and its subscription has not failed every
\* stored record comes to be listed and every removed record comes to be
\* unlisted.
C12_ListFollowsStoreWhileSubscribed ==
    /\ ListIsLastSnapshot
    /\ \A id \in ViewIds :
           /\ (id \in DocIds(docs)) ~> (id \in DocIds(products) \/ ~Subscribed)
           /\ (id \notin DocIds(docs)) ~> (id \notin DocIds(products) \/ ~Subscribed)

C12_Witness ==
    /\ Subscribed
    /\ sub.outcome = "success"
    /\ lastDel.outcome = "success"
    /\ IdOf(1) \in DocIds(products)
    /\ lastDel.pid \notin DocIds(products)
    /\ Len(products) = 1
    /\ products = OrderByCreatedAtDesc(docs)

\* C13: every operation that failed has shown a failure notification and left
\* no error uncaught: the upload widget's error, a failed submission, a failed
\* delete, a failed subscription; every add or delete that succeeded has shown
\* exactly one success notification.
C13_EveryErrorNotified ==
    /\ widget.error # NoError => widget.toasts # <<>>
    /\ sub.pc # "hung"
    /\ (sub.pc = "done" /\ sub.outcome = "failure") => sub.toasts = <<"add-failure">>
    /\ (sub.pc = "done" /\ sub.outcome = "success") => sub.toasts = <<"add-success">>
    /\ lastDel.outcome = "failure" => lastDel.toasts = <<"delete-failure">>
    /\ lastDel.outcome = "success" => lastDel.toasts = <<"delete-success">>
    /\ (\E l \in 1..Len(view.subs) : view.subs[l].state = "failed") =>
           (view.toasts # <<>> /\ view.toasts[Len(view.toasts)] = "fetch-failure")

\* The subscriptions whose unsubscribe function was not called yet.
Open(v) == {l \in 1..Len(v.subs) : v.subs[l].unsubscribes = 0}

TornDown(v) ==
    /\ \A l \in 1..Len(v.subs) : v.subs[l].unsubscribes <= 1
    /\ Open(v) = IF v.mounted THEN {Len(v.subs)} ELSE {}
    /\ Active(v) \subseteq Open(v)

\* C14: every subscription the effect opened is unsubscribed exactly once when
\* the effect runs again or the view is unmounted, a mounted view holds exactly
\* one subscription that is not unsubscribed and an unmounted one none, and the
\* list is set only while the view is mounted, by its open subscription.
C14_SubscriptionTornDown ==
    [][/\ TornDown(view) /\ TornDown(view')
       /\ products' # products => (view.mounted /\ Active(view) = {Len(view.subs)})]_vars

C14_Witness ==
    /\ ~view.mounted
    /\ Len(view.subs) = 2
    /\ \A l \in 1..2 : view.subs[l] = [state |-> "unsubscribed", unsubscribes |-> 1]
    /\ products # <<>>
    /\ products # OrderByCreatedAtDesc(docs)

\* C15: direct-upload handleAddProduct: at most one file is started whose
\* download URL is not collected yet, an upload in flight is that of the file
\* after the last collected one, and when addDoc is called the collected URLs
\* are those of the selected files, one each, in input order.
C15_UploadsSequential ==
    revision = "direct" =>
        /\ Len(sub.paths) <= Len(sub.urls) + 1
        /\ sub.filesUploaded = Len(sub.urls)
        /\ sub.uploads \in {Len(sub.paths) - 1, Len(sub.paths)}
        /\ sub.pc \in {"upload", "getUrl"} =>
               /\ Len(sub.paths) = Len(sub.urls) + 1
               /\ sub.paths[Len(sub.paths)][3] = sub.files[Len(sub.paths)]
               /\ (sub.pc = "upload") <=> (sub.uploads = Len(sub.urls))
        /\ sub.pc = "addDoc" =>
               /\ Len(sub.urls) = Len(sub.files)
               /\ sub.uploads = Len(sub.files)
               /\ \A i \in 1..Len(sub.files) :
                      /\ sub.urls[i] = DownloadUrl(sub.paths[i])
                      /\ sub.paths[i][3] = sub.files[i]
               /\ \A i, j \in 1..Len(sub.files) : i < j => sub.urls[i] # sub.urls[j]

C15_Witness ==
    /\ revision = "direct"
    /\ sub.pc = "addDoc"
    /\ Len(sub.files) = 2
    /\ Len(sub.urls) = 2
    /\ sub.urls[1] # sub.urls[2]

\* The mapping as the claim words it: the explicit url when present, otherwise
\* https://utfs.io/f/<key> when a key is present, otherwise nothing.
RECURSIVE ExpectedUrls(_)
ExpectedUrls(res) ==
    IF res = <<>> THEN <<>>
    ELSE LET file == Head(res)
             mapped == IF file.url # <<>> THEN <<file.url>>
                       ELSE IF file.key # <<>>
                            THEN << <<"https://", "utfs.io/f/">> \o file.key >>
                            ELSE <<>>
         IN  mapped \o ExpectedUrls(Tail(res))

\* C16: the completion callback appends the URLs of the batch's descriptors,
\* mapped as above and in batch order, to the end of the accumulated list; the
\* error callback leaves the list as it was.
C16_DescriptorsMapped ==
    [][/\ (widget.pending # <<>> /\ widget'.pending = <<>> /\ widget'.error = NoError)
           => imageUrls' = imageUrls \o ExpectedUrls(widget.pending)
       /\ (widget.pending # <<>> /\ widget'.error # NoError)
           => imageUrls' = imageUrls]_vars

C16_Witness ==
    /\ widget.pending = <<>>
    /\ widget.error = NoError
    /\ imageUrls = <<UrlA, <<"https://", "utfs.io/f/", "kb">>, NotAUrl>>

\* C17: while a delete of a product is in flight its delete control is disabled
\* (isDeleting is that product's id), so no second delete of the product is in
\* flight, and isDeleting is cleared only when no delete is in flight.
C17_InFlightDeleteStaysDisabled ==
    /\ \A c \in 1..Len(dels) : isDeleting = dels[c].pid
    /\ \A c, e \in 1..Len(dels) : c # e => dels[c].pid # dels[e].pid
    /\ isDeleting = NoId => dels = <<>>

====
